---- MODULE Spec2Model ----
(***************************************************************************)
(* Model of gm/rebaseline_server/results.py: the Results object that loads *)
(* actual and expected GM results from two directory trees, classifies     *)
(* them into the 'all' and 'failures' views, and edits the expectations    *)
(* on disk.                                                                *)
(*                                                                         *)
(* Python values.  A str that is never None is a TLA+ string.  A JSON      *)
(* value is tagged with its type: None, PInt(n), PStr(s), PList(seq) for a *)
(* list and PDict(f) for a dict, f the function from its keys.             *)
(* A directory tree is the function from the file paths below the root to  *)
(* the JSON document each file holds, and whether the root is a directory. *)
(***************************************************************************)
EXTENDS Integers, Sequences, FiniteSets, TLC

VARIABLES actuals, expected, results, built, timestamp, warnings, returned,
          lastOp, edits

vars == <<actuals, expected, results, built, timestamp, warnings, returned,
          lastOp, edits>>

----------------------------------------------------------------------------
(* Bounds of the model *)

\* modifications in one edit_expectations call
MaxMods == 2
\* edit_expectations / _write_dicts_to_root calls in one behaviour
MaxEdits == 1

----------------------------------------------------------------------------
(* Python values and strings *)

None == [t |-> "none"]
PInt(n) == [t |-> "int", v |-> n]
PStr(s) == [t |-> "str", v |-> s]
PList(seq) == [t |-> "list", v |-> seq]

PDict(f) == [t |-> "dict", v |-> f]

\* `not v` for None, {} and []
Falsy(v) == v = None \/ v = PDict(<< >>) \/ v = PList(<< >>)

\* d.keys()
Keys(d) == DOMAIN d.v

\* d[k] for a key of d
Item(d, k) == d.v[k]

\* d.get(k)
DictGet(d, k) == IF k \in Keys(d) THEN Item(d, k) ELSE None

\* d[k] = v
DictPut(d, k, v) ==
  PDict([x \in Keys(d) \cup {k} |-> IF x = k THEN v ELSE Item(d, x)])

CharAt(s, i) == SubSeq(s, i, i)

\* s.endswith(suffix)
EndsWith(s, suffix) ==
  /\ Len(s) >= Len(suffix)
  /\ SubSeq(s, Len(s) - Len(suffix) + 1, Len(s)) = suffix

\* the characters that occur in names, in code point order
Alphabet == "-.0123456789ABCDEFGHIJKLMNOPQRSTUVWXYZ_abcdefghijklmnopqrstuvwxyz"

OrdTable ==
  [c \in {CharAt(Alphabet, i) : i \in 1..Len(Alphabet)} |->
     CHOOSE i \in 1..Len(Alphabet) : CharAt(Alphabet, i) = c]

\* ord(c)
Ord(c) == OrdTable[c]

RECURSIVE StrLessFrom(_, _, _)
StrLessFrom(a, b, i) ==
  IF i > Len(b) THEN FALSE
  ELSE IF i > Len(a) THEN TRUE
  ELSE IF CharAt(a, i) = CharAt(b, i) THEN StrLessFrom(a, b, i + 1)
  ELSE Ord(CharAt(a, i)) < Ord(CharAt(b, i))

\* a < b on Python strings
StrLess(a, b) == StrLessFrom(a, b, 1)

RECURSIVE Sorted(_)
\* sorted(S) for a collection S of distinct strings
Sorted(S) ==
  IF S = {} THEN << >>
  ELSE LET m == CHOOSE x \in S : \A y \in S : x = y \/ StrLess(x, y)
       IN <<m>> \o Sorted(S \ {m})

DigitChars == "0123456789"

DigitValue(c) == (CHOOSE i \in 1..10 : CharAt(DigitChars, i) = c) - 1

IsDigit(c) == \E i \in 1..10 : CharAt(DigitChars, i) = c

RECURSIVE IntFrom(_, _, _)
IntFrom(s, i, acc) ==
  IF i > Len(s) THEN acc
  ELSE IntFrom(s, i + 1, acc * 10 + DigitValue(CharAt(s, i)))

\* int(s) is defined on the decimal strings; anything else raises ValueError
IsDecimal(s) == Len(s) > 0 /\ \A i \in 1..Len(s) : IsDigit(CharAt(s, i))

\* int(s)
ParseInt(s) == IntFrom(s, 1, 0)

RECURSIVE NatStr(_)
NatStr(n) ==
  IF n < 10 THEN CharAt(DigitChars, n + 1)
  ELSE NatStr(n \div 10) \o CharAt(DigitChars, (n % 10) + 1)

\* str(v)
Str(v) ==
  IF v = None THEN "None"
  ELSE IF v.t = "int" THEN NatStr(v.v)
  ELSE v.v

----------------------------------------------------------------------------
(* Constants of results.py and of gm_json *)

IMAGE_FILENAME_FORMATTER(test, config) == test \o "_" \o config \o ".png"

CATEGORIES_TO_SUMMARIZE == <<"builder", "test", "config", "resultType">>
RESULTS_ALL == "all"
RESULTS_FAILURES == "failures"

JSONKEY_ACTUALRESULTS == "actual-results"
JSONKEY_ACTUALRESULTS_FAILED == "failed"
JSONKEY_ACTUALRESULTS_FAILUREIGNORED == "failure-ignored"
JSONKEY_ACTUALRESULTS_NOCOMPARISON == "no-comparison"
JSONKEY_ACTUALRESULTS_SUCCEEDED == "succeeded"
JSONKEY_EXPECTEDRESULTS == "expected-results"
JSONKEY_EXPECTEDRESULTS_ALLOWEDDIGESTS == "allowed-digests"
JSONKEY_EXPECTEDRESULTS_IGNOREFAILURE == "ignore-failure"

TrybotSuffix == "-Trybot"
JsonPattern == ".json"

\* IMAGE_FILENAME_RE.match(name): '(\S+)_(\S+)\.png', both groups greedy.
\* Where a ".png" starts in the name, and the underscores that leave a
\* non-empty group on both sides
PngStarts(name) ==
  {j \in 1..Len(name) : j + 3 <= Len(name) /\ SubSeq(name, j, j + 3) = ".png"}

ImageNameSplits(name) ==
  {i \in 2..Len(name) :
     CharAt(name, i) = "_" /\ \E j \in PngStarts(name) : j > i + 1}

ImageNameMatches(name) == ImageNameSplits(name) # {}

\* IMAGE_FILENAME_RE.match(name).groups()
ImageNameGroups(name) ==
  LET i == CHOOSE a \in ImageNameSplits(name) :
             \A b \in ImageNameSplits(name) : b <= a
      j == CHOOSE a \in PngStarts(name) : \A b \in PngStarts(name) : b <= a
  IN <<SubSeq(name, 1, i - 1), SubSeq(name, i + 1, j - 1)>>

----------------------------------------------------------------------------
(* Directory trees *)

Tree(files) == [isdir |-> TRUE, files |-> files]
NoDir == [isdir |-> FALSE, files |-> << >>]

\* os.path.isdir(root)
IsDir(root) == root.isdir

\* a file below the root: the directories that lead to it and its name
FilePath(dir, name) == [dir |-> dir, name |-> name]

\* os.path.basename(dirpath)
Basename(dirpath) == dirpath[Len(dirpath)]

DirsOf(root) == {p.dir : p \in DOMAIN root.files}

\* fnmatch.filter(filenames, '*.json') keeps the names the pattern matches
FnMatch(name) == EndsWith(name, JsonPattern)

MatchingNames(root) ==
  {p.name : p \in {q \in DOMAIN root.files : FnMatch(q.name)}}

\* the orders in which os.listdir can return a set of names
Orderings(S) ==
  {s \in [1..Cardinality(S) -> S] : \A i, j \in DOMAIN s : s[i] = s[j] => i = j}

\* The listing order os.walk meets the matching files in is the file
\* system's choice: every directory returns its matching names in the
\* relative order `listing` gives them.
Listings(root) == IF IsDir(root) THEN Orderings(MatchingNames(root)) ELSE {<< >>}

RECURSIVE DirSeq(_)
\* the directories in the order os.walk visits them
DirSeq(D) ==
  IF D = {} THEN << >>
  ELSE LET d == CHOOSE x \in D : TRUE IN <<d>> \o DirSeq(D \ {d})

RECURSIVE WalkDirs(_, _, _)
WalkDirs(root, dirs, listing) ==
  IF dirs = << >> THEN << >>
  ELSE LET here == SelectSeq(listing,
                     LAMBDA n : FilePath(Head(dirs), n) \in DOMAIN root.files)
       IN [i \in 1..Len(here) |-> FilePath(Head(dirs), here[i])]
            \o WalkDirs(root, Tail(dirs), listing)

\* the matching files of the tree in the order the two nested loops over
\* os.walk(root) and fnmatch.filter(filenames, pattern) meet them
WalkMatching(root, listing) == WalkDirs(root, DirSeq(DirsOf(root)), listing)

\* no builder is taken for a Trybot
IsTrybotNever(builder) == FALSE

\* builder.endswith('-Trybot')
IsTrybot(builder) == EndsWith(builder, TrybotSuffix)

\* gm_json.LoadFromFile / gm_json.WriteToFile: a file holds a JSON document
LoadFromFile(root, path) == root.files[path]
WriteToFile(root, doc, path) == [root EXCEPT !.files[path] = doc]

Raise(name) == [error |-> name, value |-> None]
Return(v) == [error |-> "", value |-> v]

RECURSIVE ReadLoop(_, _, _)
ReadLoop(root, files, meta_dict) ==
  IF files = << >> THEN meta_dict
  ELSE LET builder == Basename(Head(files).dir)
       IN IF IsTrybot(builder)
          THEN ReadLoop(root, Tail(files), meta_dict)
          ELSE ReadLoop(root, Tail(files),
                        DictPut(meta_dict, builder,
                                LoadFromFile(root, Head(files))))

\* Results._read_dicts_from_root(root)
ReadDictsFromRoot(root, listing) ==
  IF ~IsDir(root) THEN Raise("IOError")
  ELSE Return(ReadLoop(root, WalkMatching(root, listing), PDict(<< >>)))

RECURSIVE WriteLoop(_, _, _)
\* the walk of _write_dicts_to_root: the tree it leaves on disk and
\* actual_builders_written
WriteLoop(meta_dict, files, acc) ==
  IF files = << >> THEN acc
  ELSE LET builder == Basename(Head(files).dir)
           per_builder_dict == DictGet(meta_dict, builder)
       IN IF IsTrybot(builder) \/ Falsy(per_builder_dict)
          THEN WriteLoop(meta_dict, Tail(files), acc)
          ELSE WriteLoop(meta_dict, Tail(files),
                 [root |-> WriteToFile(acc.root, per_builder_dict, Head(files)),
                  written |-> Append(acc.written, builder)])

\* the builders of list a, each as often as it occurs, against the keys
\* of the mapping: sorted(meta_dict.keys()) != sorted(actual_builders_written)
SortedListsDiffer(keys, written) ==
  \/ {written[i] : i \in DOMAIN written} # keys
  \/ Len(written) # Cardinality(keys)

\* a writer that writes every dictionary it is given to the expectations
\* file of its builder, whether or not the file is there
WriteDictsToRootCreating(meta_dict, root, listing) ==
  IF ~IsDir(root) THEN [root |-> root, error |-> "IOError"]
  ELSE LET target(b) == FilePath(<<b>>, "expected-results.json")
           targets == {target(b) : b \in Keys(meta_dict)}
       IN [root |->
             [root EXCEPT !.files =
                [p \in (DOMAIN root.files) \cup targets |->
                   IF p \in targets THEN Item(meta_dict, Basename(p.dir))
                   ELSE root.files[p]]],
           error |-> ""]

\* Results._write_dicts_to_root(meta_dict, root): the tree on disk after
\* the call and the error it raises
WriteDictsToRoot(meta_dict, root, listing) ==
  IF ~IsDir(root) THEN [root |-> root, error |-> "IOError"]
  ELSE LET done == WriteLoop(meta_dict, WalkMatching(root, listing),
                             [root |-> root, written |-> << >>])
       IN [root |-> done.root,
           error |-> IF SortedListsDiffer(Keys(meta_dict), done.written)
                     THEN "KeyError: set mismatch" ELSE ""]

----------------------------------------------------------------------------
(* The category summaries *)

\* A category dictionary is the function from the category names it holds
\* to the function from each value to its count.

\* `not category_dict.get(category)`: absent or empty
NoCategory(category_dict, category) ==
  category \notin DOMAIN category_dict \/ DOMAIN category_dict[category] = {}

\* `not category_dict[category].get(category_value)`: absent or zero
NoCount(d, k) == k \notin DOMAIN d \/ d[k] = 0

CategoryPut(d, k, v) == [x \in (DOMAIN d) \cup {k} |-> IF x = k THEN v ELSE d[x]]

RECURSIVE AddCategories(_, _, _)
AddCategories(category_dict, test_results, categories) ==
  IF categories = << >> THEN category_dict
  ELSE LET category == Head(categories)
           category_value == test_results[category]
           with_category ==
             IF NoCategory(category_dict, category)
             THEN CategoryPut(category_dict, category, << >>)
             ELSE category_dict
           counts == with_category[category]
           count == IF NoCount(counts, category_value) THEN 0
                    ELSE counts[category_value]
       IN IF category_value = ""
          THEN AddCategories(category_dict, test_results, Tail(categories))
          ELSE AddCategories(
                 CategoryPut(with_category, category,
                             CategoryPut(counts, category_value, count + 1)),
                 test_results, Tail(categories))

\* Results._add_to_category_dict(category_dict, test_results)
AddToCategoryDict(category_dict, test_results) ==
  AddCategories(category_dict, test_results, CATEGORIES_TO_SUMMARIZE)

RECURSIVE EnsureValues(_, _)
EnsureValues(counts, category_values) ==
  IF category_values = << >> THEN counts
  ELSE EnsureValues(
         IF NoCount(counts, Head(category_values))
         THEN CategoryPut(counts, Head(category_values), 0)
         ELSE counts,
         Tail(category_values))

\* no seeding at all
EnsureNothing(category_dict, category_name, category_values) == category_dict

\* Results._ensure_included_in_category_dict(category_dict, category_name,
\* category_values)
EnsureIncludedInCategoryDict(category_dict, category_name, category_values) ==
  LET with_category ==
        IF NoCategory(category_dict, category_name)
        THEN CategoryPut(category_dict, category_name, << >>)
        ELSE category_dict
  IN CategoryPut(with_category, category_name,
             EnsureValues(with_category[category_name], category_values))

----------------------------------------------------------------------------
(* Results._load_actual_and_expected *)

\* v[k] on a dict: TypeError when v is None, KeyError when k is no key
Subscript(r, k) ==
  IF r.error # "" THEN r
  ELSE IF r.value = None THEN Raise("TypeError")
  ELSE IF k \in Keys(r.value) THEN Return(Item(r.value, k))
  ELSE Raise("KeyError")

\* v[0] on a list: TypeError when v is None, IndexError when v is empty
First(r) ==
  IF r.error # "" THEN r
  ELSE IF r.value = None THEN Raise("TypeError")
  ELSE IF r.value.v = << >> THEN Raise("IndexError")
  ELSE Return(r.value.v[1])

\* expected_builder_dicts[builder][JSONKEY_EXPECTEDRESULTS][image_name]
\*   [JSONKEY_EXPECTEDRESULTS_ALLOWEDDIGESTS][0]
ExpectedFirstDigest(expected_builder_dicts, builder, image_name) ==
  First(
    Subscript(
      Subscript(
        Subscript(
          Subscript(Return(expected_builder_dicts), builder),
          JSONKEY_EXPECTEDRESULTS),
        image_name),
      JSONKEY_EXPECTEDRESULTS_ALLOWEDDIGESTS))

\* except (KeyError, TypeError): expected_image = [None, None]
NoExpectations(r) == r.error \in {"KeyError", "TypeError"}

\* a comparison of the digests alone
UpdatedResultTypeByDigest(expected_image, actual_image, result_type) ==
  IF expected_image.v[2] = actual_image.v[2]
  THEN JSONKEY_ACTUALRESULTS_SUCCEEDED
  ELSE result_type

\* the effective result type of lines 329-332
UpdatedResultType(expected_image, actual_image, result_type) ==
  IF expected_image = actual_image
  THEN JSONKEY_ACTUALRESULTS_SUCCEEDED
  ELSE result_type

\* the result types for which a missing expectation is not logged
QuietResultTypes ==
  {JSONKEY_ACTUALRESULTS_NOCOMPARISON, JSONKEY_ACTUALRESULTS_FAILUREIGNORED}

\* results_for_this_test
ResultsForThisTest(builder, image_name, updated_result_type, actual_image, expected_image) ==
  LET groups == ImageNameGroups(image_name)
  IN [builder |-> builder,
      test |-> groups[1],
      config |-> groups[2],
      resultType |-> updated_result_type,
      actualHashType |-> actual_image.v[1],
      actualHashDigest |-> PStr(Str(actual_image.v[2])),
      expectedHashType |-> expected_image.v[1],
      expectedHashDigest |-> PStr(Str(expected_image.v[2]))]

\* only the failed results
IsFailedOnly(updated_result_type) ==
  updated_result_type = JSONKEY_ACTUALRESULTS_FAILED

\* whether a record goes to the 'failures' view as well
IsFailure(updated_result_type) ==
  updated_result_type # JSONKEY_ACTUALRESULTS_SUCCEEDED

\* the body of the innermost loop, lines 273-350
LoadOne(acc, actual_image, expected_builder_dicts, builder, result_type, image_name) ==
  LET looked == ExpectedFirstDigest(expected_builder_dicts, builder, image_name)
      expected_image == IF NoExpectations(looked) THEN PList(<<None, None>>)
                        ELSE looked.value
      warned == IF NoExpectations(looked) /\ result_type \notin QuietResultTypes
                THEN Append(acc.warnings,
                            [builder |-> builder, image_name |-> image_name,
                             result_type |-> result_type])
                ELSE acc.warnings
      updated_result_type ==
        UpdatedResultType(expected_image, actual_image, result_type)
      results_for_this_test ==
        ResultsForThisTest(builder, image_name, updated_result_type,
                           actual_image, expected_image)
  IN IF looked.error # "" /\ ~NoExpectations(looked)
     THEN [acc EXCEPT !.error = looked.error]
     ELSE IF ~ImageNameMatches(image_name)
     THEN [acc EXCEPT !.error = "AttributeError", !.warnings = warned]
     ELSE [error |-> "",
           warnings |-> warned,
           categories_all |->
             AddToCategoryDict(acc.categories_all, results_for_this_test),
           data_all |-> Append(acc.data_all, results_for_this_test),
           categories_failures |->
             IF IsFailure(updated_result_type)
             THEN AddToCategoryDict(acc.categories_failures,
                                    results_for_this_test)
             ELSE acc.categories_failures,
           data_failures |->
             IF IsFailure(updated_result_type)
             THEN Append(acc.data_failures, results_for_this_test)
             ELSE acc.data_failures]

RECURSIVE LoadImages(_, _, _, _, _, _)
\* for image_name in sorted(results_of_this_type.keys())
LoadImages(acc, results_of_this_type, expected_builder_dicts, builder, result_type, image_names) ==
  IF image_names = << >> \/ acc.error # "" THEN acc
  ELSE LoadImages(
         LoadOne(acc, Item(results_of_this_type, Head(image_names)),
                 expected_builder_dicts, builder, result_type,
                 Head(image_names)),
         results_of_this_type, expected_builder_dicts,
         builder, result_type, Tail(image_names))

RECURSIVE LoadResultTypes(_, _, _, _, _)
\* for result_type in sorted(actual_results_for_this_builder.keys())
LoadResultTypes(acc, actual_results_for_this_builder, expected_builder_dicts, builder, result_types) ==
  IF result_types = << >> \/ acc.error # "" THEN acc
  ELSE LET results_of_this_type ==
             Item(actual_results_for_this_builder, Head(result_types))
       IN LoadResultTypes(
            IF Falsy(results_of_this_type) THEN acc
            ELSE LoadImages(acc, results_of_this_type, expected_builder_dicts,
                            builder, Head(result_types),
                            Sorted(Keys(results_of_this_type))),
            actual_results_for_this_builder, expected_builder_dicts,
            builder, Tail(result_types))

RECURSIVE LoadBuilders(_, _, _, _)
\* for builder in sorted(actual_builder_dicts.keys())
LoadBuilders(acc, actual_builder_dicts, expected_builder_dicts, builders) ==
  IF builders = << >> \/ acc.error # "" THEN acc
  ELSE LET actual_results_for_this_builder ==
             Subscript(Return(Item(actual_builder_dicts, Head(builders))),
                       JSONKEY_ACTUALRESULTS)
       IN LoadBuilders(
            IF actual_results_for_this_builder.error # ""
            THEN [acc EXCEPT !.error = actual_results_for_this_builder.error]
            ELSE IF actual_results_for_this_builder.value = None
            THEN [acc EXCEPT !.error = "AttributeError"]
            ELSE LoadResultTypes(
                   acc, actual_results_for_this_builder.value,
                   expected_builder_dicts, Head(builders),
                   Sorted(Keys(actual_results_for_this_builder.value))),
            actual_builder_dicts, expected_builder_dicts, Tail(builders))

AllResultTypes ==
  <<JSONKEY_ACTUALRESULTS_FAILED, JSONKEY_ACTUALRESULTS_FAILUREIGNORED,
    JSONKEY_ACTUALRESULTS_NOCOMPARISON, JSONKEY_ACTUALRESULTS_SUCCEEDED>>

FailureResultTypes ==
  <<JSONKEY_ACTUALRESULTS_FAILED, JSONKEY_ACTUALRESULTS_FAILUREIGNORED,
    JSONKEY_ACTUALRESULTS_NOCOMPARISON>>

\* Results._load_actual_and_expected(): the error it raises, or self._results
\* and the warnings it logs
LoadActualAndExpected(actuals_root, actuals_listing, expected_root, expected_listing) ==
  LET actual_builder_dicts == ReadDictsFromRoot(actuals_root, actuals_listing)
      expected_builder_dicts ==
        ReadDictsFromRoot(expected_root, expected_listing)
      start == [error |-> "",
                warnings |-> << >>,
                categories_all |->
                  EnsureIncludedInCategoryDict(<< >>, "resultType",
                                               AllResultTypes),
                data_all |-> << >>,
                categories_failures |->
                  EnsureIncludedInCategoryDict(<< >>, "resultType",
                                               FailureResultTypes),
                data_failures |-> << >>]
      loaded == LoadBuilders(start, actual_builder_dicts.value,
                             expected_builder_dicts.value,
                             Sorted(Keys(actual_builder_dicts.value)))
  IN IF actual_builder_dicts.error # ""
     THEN [error |-> actual_builder_dicts.error, results |-> None,
           warnings |-> << >>]
     ELSE IF expected_builder_dicts.error # ""
     THEN [error |-> expected_builder_dicts.error, results |-> None,
           warnings |-> << >>]
     ELSE IF loaded.error # ""
     THEN [error |-> loaded.error, results |-> None,
           warnings |-> loaded.warnings]
     ELSE [error |-> "",
           results |->
             [all |-> [categories |-> loaded.categories_all,
                       testData |-> loaded.data_all],
              failures |-> [categories |-> loaded.categories_failures,
                            testData |-> loaded.data_failures]],
           warnings |-> loaded.warnings]

----------------------------------------------------------------------------
(* Results.edit_expectations *)

\* a loop body that makes up the dictionary of a builder it did not read
ApplyModificationCreates(expected_builder_dicts, mod) ==
  LET image_name == IMAGE_FILENAME_FORMATTER(mod.test, mod.config)
      allowed_digests ==
        PList(<<PList(<<PStr(mod.expectedHashType),
                        PInt(ParseInt(mod.expectedHashDigest))>>)>>)
      new_expectations ==
        PDict((JSONKEY_EXPECTEDRESULTS_ALLOWEDDIGESTS :> allowed_digests)
                @@ (JSONKEY_EXPECTEDRESULTS_IGNOREFAILURE :> FALSE))
      builder_dict == IF mod.builder \in Keys(expected_builder_dicts)
                      THEN Item(expected_builder_dicts, mod.builder)
                      ELSE PDict(<< >>)
      found == DictGet(builder_dict, JSONKEY_EXPECTEDRESULTS)
      builder_expectations == IF Falsy(found) THEN PDict(<< >>) ELSE found
  IN IF ~IsDecimal(mod.expectedHashDigest) THEN Raise("ValueError")
     ELSE Return(
            DictPut(expected_builder_dicts, mod.builder,
                    DictPut(builder_dict, JSONKEY_EXPECTEDRESULTS,
                            DictPut(builder_expectations, image_name,
                                    new_expectations))))

\* a loop body that stores the digest as the string it was given
ApplyModificationKeepsString(expected_builder_dicts, mod) ==
  LET image_name == IMAGE_FILENAME_FORMATTER(mod.test, mod.config)
      allowed_digests ==
        PList(<<PList(<<PStr(mod.expectedHashType),
                        PStr(mod.expectedHashDigest)>>)>>)
      new_expectations ==
        PDict((JSONKEY_EXPECTEDRESULTS_ALLOWEDDIGESTS :> allowed_digests)
                @@ (JSONKEY_EXPECTEDRESULTS_IGNOREFAILURE :> FALSE))
      builder_dict == Item(expected_builder_dicts, mod.builder)
      found == DictGet(builder_dict, JSONKEY_EXPECTEDRESULTS)
      builder_expectations == IF Falsy(found) THEN PDict(<< >>) ELSE found
  IN IF mod.builder \notin Keys(expected_builder_dicts)
     THEN Raise("KeyError")
     ELSE Return(
            DictPut(expected_builder_dicts, mod.builder,
                    DictPut(builder_dict, JSONKEY_EXPECTEDRESULTS,
                            DictPut(builder_expectations, image_name,
                                    new_expectations))))

\* one iteration of the loop over modifications, lines 96-109
ApplyModification(expected_builder_dicts, mod) ==
  LET image_name == IMAGE_FILENAME_FORMATTER(mod.test, mod.config)
      allowed_digests ==
        PList(<<PList(<<PStr(mod.expectedHashType),
                        PInt(ParseInt(mod.expectedHashDigest))>>)>>)
      new_expectations ==
        PDict((JSONKEY_EXPECTEDRESULTS_ALLOWEDDIGESTS :> allowed_digests)
                @@ (JSONKEY_EXPECTEDRESULTS_IGNOREFAILURE :> FALSE))
      builder_dict == Item(expected_builder_dicts, mod.builder)
      found == DictGet(builder_dict, JSONKEY_EXPECTEDRESULTS)
      builder_expectations == IF Falsy(found) THEN PDict(<< >>) ELSE found
  IN IF ~IsDecimal(mod.expectedHashDigest) THEN Raise("ValueError")
     ELSE IF mod.builder \notin Keys(expected_builder_dicts)
     THEN Raise("KeyError")
     ELSE Return(
            DictPut(expected_builder_dicts, mod.builder,
                    DictPut(builder_dict, JSONKEY_EXPECTEDRESULTS,
                            DictPut(builder_expectations, image_name,
                                    new_expectations))))

RECURSIVE ApplyModifications(_, _)
\* for mod in modifications
ApplyModifications(r, modifications) ==
  IF modifications = << >> \/ r.error # "" THEN r
  ELSE ApplyModifications(ApplyModification(r.value, Head(modifications)),
                          Tail(modifications))

\* Results.edit_expectations(modifications): the mapping it hands to
\* _write_dicts_to_root, the expected tree it leaves on disk and the error
\* it raises
EditExpectations(root, modifications, listing) ==
  LET read == ReadDictsFromRoot(root, listing)
      edited == ApplyModifications(read, modifications)
      wrote == WriteDictsToRoot(edited.value, root, listing)
  IN IF edited.error # ""
     THEN [root |-> root, error |-> edited.error, meta_dict |-> None]
     ELSE [root |-> wrote.root, error |-> wrote.error,
           meta_dict |-> edited.value]

----------------------------------------------------------------------------
(* The files on disk and the callers' arguments *)

Builder1 == "B1"
Builder2 == "B2"
TrybotBuilder == "B1-Trybot"

ActualsFile(builder) == FilePath(<<builder>>, "actual-results.json")
ExpectedFile(builder) == FilePath(<<builder>>, "expected-results.json")
\* a second file the pattern matches, and one it does not match
ExtraFile(builder) == FilePath(<<builder>>, "extra.json")
NotesFile(builder) == FilePath(<<builder>>, "notes.txt")

Md5(n) == PList(<<PStr("bitmap-64bitMD5"), PInt(n)>>)
Sha(n) == PList(<<PStr("bitmap-sha1"), PInt(n)>>)

\* the dict {k: v}
Dict1(k, v) == PDict(k :> v)

\* the partial functions from S to T: the dicts with keys in S, values in T
PartialFunctions(S, T) == UNION {[D -> T] : D \in SUBSET S}

\* an actual-results document: each image under the result type it has
ActualDoc(image_results, listed) ==
  Dict1(JSONKEY_ACTUALRESULTS,
    PDict([rt \in {image_results[i][1] : i \in DOMAIN image_results} \cup listed |->
       PDict([i \in {x \in DOMAIN image_results : image_results[x][1] = rt} |->
          image_results[i][2]])]))

ResultTypeSet == {AllResultTypes[i] : i \in DOMAIN AllResultTypes}

\* an expected-results document with the given entry per image
ExpectedDoc(entries) == Dict1(JSONKEY_EXPECTEDRESULTS, entries)

Expectation(allowed_digests, ignore_failure) ==
  PDict((JSONKEY_EXPECTEDRESULTS_ALLOWEDDIGESTS :> allowed_digests)
          @@ (JSONKEY_EXPECTEDRESULTS_IGNOREFAILURE :> ignore_failure))

\* a file that is not there
Absent == [t |-> "absent"]

\* a tree from the files that are there: absent files are left out
TreeOf(files) ==
  Tree([p \in {q \in DOMAIN files : files[q] # Absent} |-> files[p]])

(* -- the trees of the loading specification -- *)

LoadImages1 == {"t_c.png", "t_d.png"}
LoadImage2 == "my_test_565.png"

LoadActualDocs1 ==
  {ActualDoc(ir, {}) :
     ir \in PartialFunctions(LoadImages1, ResultTypeSet \X {Md5(1), Sha(1)})}

LoadActualDocs2 ==
  {Absent,
   PDict(<< >>),
   ActualDoc(LoadImage2 :> <<JSONKEY_ACTUALRESULTS_FAILED, Md5(1)>>,
             {JSONKEY_ACTUALRESULTS_NOCOMPARISON})}

LoadActualDocsTrybot ==
  {Absent,
   ActualDoc("t_c.png" :> <<JSONKEY_ACTUALRESULTS_FAILED, Md5(1)>>, {})}

LoadExpectations ==
  {Expectation(PList(<<Md5(1)>>), FALSE), Expectation(PList(<<Md5(2)>>), FALSE),
   Expectation(PList(<<Sha(1)>>), TRUE),
   Expectation(PList(<<Md5(1), Md5(2)>>), FALSE),
   Expectation(PList(<< >>), FALSE), Expectation(None, FALSE),
   Dict1(JSONKEY_EXPECTEDRESULTS_IGNOREFAILURE, FALSE)}

LoadExpectedDocs1 ==
  {Absent, PDict(<< >>), ExpectedDoc(None), ExpectedDoc(PDict(<< >>))}
    \cup {ExpectedDoc(Dict1(i, e)) : i \in LoadImages1, e \in LoadExpectations}

LoadExpectedDocs2 ==
  {Absent, ExpectedDoc(Dict1(LoadImage2, Expectation(PList(<<Md5(1)>>), FALSE)))}

LoadActualTrees ==
  {NoDir} \cup
  {TreeOf((ActualsFile(Builder1) :> d1) @@ (ActualsFile(Builder2) :> d2)
            @@ (ActualsFile(TrybotBuilder) :> dt)) :
     d1 \in LoadActualDocs1, d2 \in LoadActualDocs2, dt \in LoadActualDocsTrybot}

LoadExpectedTrees ==
  {TreeOf((ExpectedFile(Builder1) :> d1) @@ (ExpectedFile(Builder2) :> d2)) :
     d1 \in LoadExpectedDocs1, d2 \in LoadExpectedDocs2}

(* -- the trees and the arguments of the editing specification -- *)

EditActualTree ==
  Tree(
  (ActualsFile(Builder1) :>
     ActualDoc(("t_c.png" :> <<JSONKEY_ACTUALRESULTS_FAILED, Md5(2)>>)
                 @@ ("t_d.png" :> <<JSONKEY_ACTUALRESULTS_NOCOMPARISON, Md5(1)>>),
               {}))
  @@ (ActualsFile(TrybotBuilder) :>
     ActualDoc("t_c.png" :> <<JSONKEY_ACTUALRESULTS_FAILED, Md5(2)>>, {})))

EditExpectedDoc ==
  ExpectedDoc(Dict1("t_c.png", Expectation(PList(<<Md5(1)>>), TRUE)))

EditExpectedTrees ==
  {NoDir} \cup
  {TreeOf((ExpectedFile(Builder1) :> d1) @@ (ExtraFile(Builder1) :> dx)
            @@ (NotesFile(Builder1) :> PStr("notes"))
            @@ (ExpectedFile(Builder2) :> d2)
            @@ (ExpectedFile(TrybotBuilder) :> EditExpectedDoc)) :
     d1 \in {PDict(<< >>), EditExpectedDoc},
     dx \in {Absent, ExpectedDoc(None)},
     d2 \in {Absent, ExpectedDoc(PDict(<< >>))}}

Modification(builder, test, config, hash_type, hash_digest) ==
  [builder |-> builder, test |-> test, config |-> config,
   expectedHashType |-> hash_type, expectedHashDigest |-> hash_digest]

Modifications ==
  {Modification(Builder1, "t", "c", "bitmap-64bitMD5", "2"),
   Modification(Builder1, "t", "c", "bitmap-64bitMD5", "03"),
   Modification(Builder2, "t", "d", "bitmap-64bitMD5", "2"),
   Modification(TrybotBuilder, "t", "c", "bitmap-64bitMD5", "2")}

ModificationLists == UNION {[1..n -> Modifications] : n \in 0..MaxMods}

WrittenDoc ==
  ExpectedDoc(Dict1("t_d.png", Expectation(PList(<<Md5(4)>>), FALSE)))

MetaDicts ==
  {PDict(f) : f \in {g \in PartialFunctions({Builder1, Builder2, TrybotBuilder},
                                            {PDict(<< >>), WrittenDoc}) :
                       \A b \in DOMAIN g : g[b] = PDict(<< >>) => b = Builder1}}

\* what time.time() can return, in seconds past the epoch
Times == {1383000000, 1383000001}

----------------------------------------------------------------------------
(* The state machine *)

Idle(root) ==
  [op |-> "none", error |-> "", type |-> "", modifications |-> << >>,
   meta_dict |-> None, before |-> root]

InitCommon ==
  /\ results = None
  /\ built = None
  /\ timestamp = None
  /\ warnings = << >>
  /\ returned = None
  /\ edits = 0
  /\ lastOp = Idle(expected)

InitLoad ==
  /\ actuals \in LoadActualTrees
  /\ expected \in LoadExpectedTrees
  /\ InitCommon

Init ==
  /\ actuals = EditActualTree
  /\ expected \in EditExpectedTrees
  /\ InitCommon

\* Results(actuals_root, expected_root): a failed construction leaves the
\* caller with the object it had
Construct ==
  \E al \in Listings(actuals), el \in Listings(expected) :
    LET loaded == LoadActualAndExpected(actuals, al, expected, el)
    IN /\ IF loaded.error = ""
          THEN /\ results' = loaded.results
               /\ \E now \in Times :
                    /\ timestamp' = PInt(now)
                    /\ built' = [results |-> loaded.results,
                                 timestamp |-> PInt(now),
                                 expected |-> expected]
          ELSE UNCHANGED <<results, built, timestamp>>
       /\ warnings' = loaded.warnings
       /\ returned' = None
       /\ lastOp' = [Idle(expected) EXCEPT !.op = "construct",
                                           !.error = loaded.error]
       /\ UNCHANGED <<actuals, expected, edits>>

\* results.get_results_of_type(type)
GetResultsOfType ==
  \E type \in {RESULTS_ALL, RESULTS_FAILURES} :
    /\ results # None
    /\ returned' = results[type]
    /\ lastOp' = [Idle(expected) EXCEPT !.op = "get_results_of_type",
                                        !.type = type]
    /\ UNCHANGED <<actuals, expected, results, built, timestamp, warnings, edits>>

\* results.get_timestamp()
GetTimestamp ==
  /\ results # None
  /\ returned' = timestamp
  /\ lastOp' = [Idle(expected) EXCEPT !.op = "get_timestamp"]
  /\ UNCHANGED <<actuals, expected, results, built, timestamp, warnings, edits>>

\* an edit_expectations that refreshed the snapshot it was called on
EditExpectationsCallReloads ==
  \E modifications \in ModificationLists, listing \in Listings(expected) :
    LET done == EditExpectations(expected, modifications, listing)
        loaded == LoadActualAndExpected(
                    actuals, CHOOSE al \in Listings(actuals) : TRUE,
                    done.root, listing)
    IN /\ results # None
       /\ edits < MaxEdits
       /\ edits' = edits + 1
       /\ expected' = done.root
       /\ lastOp' = [op |-> "edit_expectations", error |-> done.error,
                     type |-> "", modifications |-> modifications,
                     meta_dict |-> done.meta_dict, before |-> expected]
       /\ returned' = None
       /\ results' = IF loaded.error = "" THEN loaded.results ELSE results
       /\ UNCHANGED <<actuals, built, timestamp, warnings>>

\* results.edit_expectations(modifications)
EditExpectationsCall ==
  \E modifications \in ModificationLists, listing \in Listings(expected) :
    LET done == EditExpectations(expected, modifications, listing)
    IN /\ results # None
       /\ edits < MaxEdits
       /\ edits' = edits + 1
       /\ expected' = done.root
       /\ lastOp' = [op |-> "edit_expectations", error |-> done.error,
                     type |-> "", modifications |-> modifications,
                     meta_dict |-> done.meta_dict, before |-> expected]
       /\ returned' = None
       /\ UNCHANGED <<actuals, results, built, timestamp, warnings>>

\* Results._write_dicts_to_root(meta_dict, expected_root)
WriteDictsToRootCall ==
  \E meta_dict \in MetaDicts, listing \in Listings(expected) :
    LET done == WriteDictsToRoot(meta_dict, expected, listing)
    IN /\ edits < MaxEdits
       /\ edits' = edits + 1
       /\ expected' = done.root
       /\ lastOp' = [op |-> "_write_dicts_to_root", error |-> done.error,
                     type |-> "", modifications |-> << >>,
                     meta_dict |-> meta_dict,
                     before |-> expected]
       /\ returned' = None
       /\ UNCHANGED <<actuals, results, built, timestamp, warnings>>

NextLoad == Construct

Next ==
  \/ Construct
  \/ GetResultsOfType
  \/ GetTimestamp
  \/ EditExpectationsCall
  \/ WriteDictsToRootCall

SpecLoad == InitLoad /\ [][NextLoad]_vars

Spec == Init /\ [][Next]_vars

----------------------------------------------------------------------------
(* What the claims speak of *)

Constructed == results # None

AllData == results.all.testData
FailuresData == results.failures.testData

\* the builders whose results are loaded, and the image names on disk
LoadedBuilders == {Builder1, Builder2}
ImageNames == LoadImages1 \cup {LoadImage2}

\* the actuals tree records image_name under result_type for builder
Recorded(builder, result_type, image_name) ==
  /\ ActualsFile(builder) \in DOMAIN actuals.files
  /\ LET doc == actuals.files[ActualsFile(builder)]
     IN /\ JSONKEY_ACTUALRESULTS \in Keys(doc)
        /\ result_type \in Keys(Item(doc, JSONKEY_ACTUALRESULTS))
        /\ image_name \in
             Keys(Item(Item(doc, JSONKEY_ACTUALRESULTS), result_type))

RecordedResults ==
  {e \in LoadedBuilders \X ResultTypeSet \X ImageNames :
     Recorded(e[1], e[2], e[3])}

ActualPair(e) ==
  Item(Item(Item(actuals.files[ActualsFile(e[1])], JSONKEY_ACTUALRESULTS),
            e[2]), e[3])

\* the expected tree holds an entry for the image under the builder
HasExpectationEntry(builder, image_name) ==
  /\ ExpectedFile(builder) \in DOMAIN expected.files
  /\ LET doc == expected.files[ExpectedFile(builder)]
     IN /\ JSONKEY_EXPECTEDRESULTS \in Keys(doc)
        /\ Item(doc, JSONKEY_EXPECTEDRESULTS) # None
        /\ image_name \in Keys(Item(doc, JSONKEY_EXPECTEDRESULTS))

ExpectationEntry(builder, image_name) ==
  Item(Item(expected.files[ExpectedFile(builder)], JSONKEY_EXPECTEDRESULTS),
       image_name)

\* the entry lists at least one allowed digest
HasAllowedDigest(builder, image_name) ==
  /\ HasExpectationEntry(builder, image_name)
  /\ LET entry == ExpectationEntry(builder, image_name)
     IN /\ JSONKEY_EXPECTEDRESULTS_ALLOWEDDIGESTS \in Keys(entry)
        /\ Item(entry, JSONKEY_EXPECTEDRESULTS_ALLOWEDDIGESTS) # None
        /\ Item(entry, JSONKEY_EXPECTEDRESULTS_ALLOWEDDIGESTS).v # << >>

FirstAllowedDigest(builder, image_name) ==
  Item(ExpectationEntry(builder, image_name),
       JSONKEY_EXPECTEDRESULTS_ALLOWEDDIGESTS).v[1]

\* the expected pair equals the actual pair
PairsEqual(e) ==
  /\ HasAllowedDigest(e[1], e[3])
  /\ FirstAllowedDigest(e[1], e[3]) = ActualPair(e)

\* the positions in a testData list of the records of an image of a builder
RecordsOf(data, builder, image_name) ==
  {i \in DOMAIN data :
     /\ data[i].builder = builder
     /\ IMAGE_FILENAME_FORMATTER(data[i].test, data[i].config) = image_name}

Occurs(data, record) == \E i \in DOMAIN data : data[i] = record

\* C1: every recorded result whose expected pair equals its actual pair is
\* loaded as a record of type 'succeeded' that is in the 'all' testData and
\* not in the 'failures' testData; every other recorded result is loaded
\* with the result type it was recorded under.
C1_Reclassification ==
  Constructed =>
    \A e \in RecordedResults :
      /\ RecordsOf(AllData, e[1], e[3]) # {}
      /\ \A i \in RecordsOf(AllData, e[1], e[3]) :
           IF PairsEqual(e)
           THEN /\ AllData[i].resultType = "succeeded"
                /\ ~Occurs(FailuresData, AllData[i])
           ELSE AllData[i].resultType = e[2]

\* a result recorded as failed is loaded as succeeded
C1_Witness ==
  /\ Constructed
  /\ \E e \in RecordedResults :
       /\ e[2] = "failed"
       /\ PairsEqual(e)
       /\ \E i \in RecordsOf(AllData, e[1], e[3]) :
            AllData[i].resultType = "succeeded"

\* C2: the 'failures' testData is the 'all' testData without the records of
\* type 'succeeded', in the same order.
C2_FailuresAreTheNotSucceeded ==
  Constructed =>
    FailuresData = SelectSeq(AllData, LAMBDA r : r.resultType # "succeeded")

\* three results loaded, one of them succeeded and two of them not
C2_Witness ==
  /\ Constructed
  /\ Len(AllData) = 3
  /\ Len(FailuresData) = 2

CountOf(data, result_type) ==
  Cardinality({i \in DOMAIN data : data[i].resultType = result_type})

ResultTypeCounts(view, result_types) ==
  /\ "resultType" \in DOMAIN view.categories
  /\ result_types \subseteq DOMAIN view.categories["resultType"]
  /\ \A rt \in result_types :
       /\ view.categories["resultType"][rt] >= 0
       /\ view.categories["resultType"][rt] = CountOf(view.testData, rt)

\* C7: the resultType category of 'all' holds the four result types and that
\* of 'failures' the three other than succeeded, each with the number of
\* records of that type in the view, zero included.
C7_ResultTypeKeys ==
  Constructed =>
    /\ ResultTypeCounts(results.all,
         {"failed", "failure-ignored", "no-comparison", "succeeded"})
    /\ ResultTypeCounts(results.failures,
         {"failed", "failure-ignored", "no-comparison"})

\* trees without any result: every count is zero
C7_Witness ==
  /\ Constructed
  /\ AllData = << >>
  /\ ActualsFile(Builder1) \in DOMAIN actuals.files

\* the expected tree has nothing for the image: the builder, the
\* expected-results key, the image name or the allowed-digests list is absent
ExpectationAbsent(builder, image_name) ==
  \/ ExpectedFile(builder) \notin DOMAIN expected.files
  \/ JSONKEY_EXPECTEDRESULTS \notin Keys(expected.files[ExpectedFile(builder)])
  \/ /\ Item(expected.files[ExpectedFile(builder)], JSONKEY_EXPECTEDRESULTS) # None
     /\ image_name \notin
          Keys(Item(expected.files[ExpectedFile(builder)], JSONKEY_EXPECTEDRESULTS))
  \/ /\ HasExpectationEntry(builder, image_name)
     /\ JSONKEY_EXPECTEDRESULTS_ALLOWEDDIGESTS \notin
          Keys(ExpectationEntry(builder, image_name))

Warned(e) ==
  \E i \in DOMAIN warnings :
    warnings[i] = [builder |-> e[1], image_name |-> e[3], result_type |-> e[2]]

\* C6: a result without expectation is loaded with expectedHashType None and
\* expectedHashDigest None and with the result type it was recorded under,
\* and nothing is logged for it when that type is no-comparison or
\* failure-ignored.
C6_NoExpectationIsNull ==
  Constructed =>
    \A e \in RecordedResults :
      ExpectationAbsent(e[1], e[3]) =>
        /\ \A i \in RecordsOf(AllData, e[1], e[3]) :
             /\ AllData[i].expectedHashType = None
             /\ AllData[i].expectedHashDigest = None
             /\ AllData[i].resultType = e[2]
        /\ e[2] \in {"no-comparison", "failure-ignored"} => ~Warned(e)

----------------------------------------------------------------------------
(* The claims about the writer and the editor *)

Edited == lastOp.op = "edit_expectations"
Wrote == lastOp.op = "_write_dicts_to_root"

Mods == lastOp.modifications

HasJsonFile(root, builder) ==
  \E p \in DOMAIN root.files : p.dir = <<builder>> /\ EndsWith(p.name, ".json")

InTrybotDir(p) == EndsWith(p.dir[Len(p.dir)], "-Trybot")

\* a modification of the call names a builder without expectations file
NamesMissingBuilder ==
  \E i \in DOMAIN Mods : ~HasJsonFile(lastOp.before, Mods[i].builder)

ModImage(mod) == mod.test \o "_" \o mod.config \o ".png"

\* the value of the decimal strings the callers pass
DecimalValue(digest) == CASE digest = "2" -> 2 [] digest = "03" -> 3

\* what a modification asks to be stored for its image
Requested(mod) ==
  PDict(("allowed-digests" :>
           PList(<<PList(<<PStr(mod.expectedHashType),
                           PInt(DecimalValue(mod.expectedHashDigest))>>)>>))
        @@ ("ignore-failure" :> FALSE))

\* what a file of the tree holds for the image
StoredIn(doc, image_name) ==
  IF /\ "expected-results" \in Keys(doc)
     /\ Item(doc, "expected-results") # None
     /\ image_name \in Keys(Item(doc, "expected-results"))
  THEN Item(Item(doc, "expected-results"), image_name)
  ELSE None

\* C3 as the specification states it: the error is the writer's set
\* mismatch, and the files of the other builders named are updated.
C3_MismatchAfterWriting ==
  (Edited /\ NamesMissingBuilder) =>
    /\ lastOp.error = "KeyError: set mismatch"
    /\ \A i \in DOMAIN Mods :
         (HasJsonFile(lastOp.before, Mods[i].builder)
            /\ ~EndsWith(Mods[i].builder, "-Trybot")) =>
           \A p \in DOMAIN expected.files :
             (p.dir = <<Mods[i].builder>> /\ EndsWith(p.name, ".json")) =>
               StoredIn(expected.files[p], ModImage(Mods[i])) # None

\* C3, amended: edit_expectations with decimal digests that names a builder
\* without expectations file raises the KeyError of the lookup of that
\* builder among the dictionaries read, before the writer is called, and
\* leaves every file as it was.
C3_LookupFailsBeforeWriting ==
  (Edited /\ NamesMissingBuilder) =>
    /\ lastOp.error = "KeyError"
    /\ expected = lastOp.before

\* a call that names a builder without file and, before it, one with a file
C3_Witness ==
  /\ Edited
  /\ NamesMissingBuilder
  /\ Len(Mods) = 2
  /\ Mods[1].builder = Builder1
  /\ ~HasJsonFile(lastOp.before, Mods[2].builder)

NoTrybotIn(view) ==
  /\ \A i \in DOMAIN view.testData :
       ~EndsWith(view.testData[i].builder, "-Trybot")
  /\ "builder" \in DOMAIN view.categories =>
       \A b \in DOMAIN view.categories["builder"] : ~EndsWith(b, "-Trybot")

\* C4: no record and no builder category of either view names a Trybot
\* builder, and edit_expectations leaves every file of a Trybot directory
\* as it was.
C4_TrybotExcluded ==
  /\ Constructed => NoTrybotIn(results.all) /\ NoTrybotIn(results.failures)
  /\ Edited =>
       \A p \in DOMAIN lastOp.before.files :
         InTrybotDir(p) =>
           /\ p \in DOMAIN expected.files
           /\ expected.files[p] = lastOp.before.files[p]

\* Trybot results and Trybot expectations on disk, and an edit that names
\* the Trybot builder
C4_Witness ==
  /\ Constructed
  /\ Edited
  /\ ActualsFile(TrybotBuilder) \in DOMAIN actuals.files
  /\ ExpectedFile(TrybotBuilder) \in DOMAIN expected.files
  /\ \E i \in DOMAIN Mods : Mods[i].builder = TrybotBuilder

\* the last modification of the call for its builder and image
IsLastFor(i) ==
  \A j \in DOMAIN Mods :
    (Mods[j].builder = Mods[i].builder /\ ModImage(Mods[j]) = ModImage(Mods[i]))
      => j <= i

\* C5: after edit_expectations returns, reading the expected tree again
\* yields for every modification, the last one per builder and image, the
\* allowed digests [[type, int(digest)]] and ignore-failure false.
C5_RoundTrip ==
  (Edited /\ lastOp.error = "") =>
    \A listing \in Listings(expected) :
      LET again == ReadDictsFromRoot(expected, listing)
      IN /\ again.error = ""
         /\ \A i \in DOMAIN Mods :
              IsLastFor(i) =>
                /\ Mods[i].builder \in Keys(again.value)
                /\ StoredIn(Item(again.value, Mods[i].builder),
                            ModImage(Mods[i])) = Requested(Mods[i])

\* two modifications of one image with different digests, and the call
\* returned
C5_Witness ==
  /\ Edited
  /\ lastOp.error = ""
  /\ Len(Mods) = 2
  /\ Mods[1].builder = Mods[2].builder
  /\ ModImage(Mods[1]) = ModImage(Mods[2])
  /\ Mods[1].expectedHashDigest # Mods[2].expectedHashDigest

\* the matching files of the builders of the mapping, Trybots aside
InScope(root, meta_dict) ==
  {p \in DOMAIN root.files :
     /\ EndsWith(p.name, ".json")
     /\ ~InTrybotDir(p)
     /\ p.dir[Len(p.dir)] \in Keys(meta_dict)}

\* C8: the writer overwrites every existing matching file of a non-Trybot
\* builder the mapping has an entry for, and raises the set mismatch exactly
\* when the set of builders written differs from the keys of the mapping.
C8_WriterContract ==
  (Wrote /\ IsDir(lastOp.before)) =>
    LET scope == InScope(lastOp.before, lastOp.meta_dict)
    IN /\ \A p \in scope :
            expected.files[p] = Item(lastOp.meta_dict, p.dir[Len(p.dir)])
       /\ (lastOp.error = "KeyError: set mismatch")
            <=> ({p.dir[Len(p.dir)] : p \in scope} # Keys(lastOp.meta_dict))

\* C9: a call of the writer or of the editor leaves the set of files as it
\* was, and changes only files that match the pattern, are in no Trybot
\* directory and belong to a builder of the mapping.
C9_OnlyExistingFiles ==
  (Edited \/ Wrote) =>
    /\ expected.isdir = lastOp.before.isdir
    /\ DOMAIN expected.files = DOMAIN lastOp.before.files
    /\ \A p \in DOMAIN expected.files :
         expected.files[p] # lastOp.before.files[p] =>
           /\ lastOp.meta_dict # None
           /\ p \in InScope(lastOp.before, lastOp.meta_dict)

\* the writer was given a builder without file, raised, and changed a file
C9_Witness ==
  /\ Wrote
  /\ lastOp.error = "KeyError: set mismatch"
  /\ \E b \in Keys(lastOp.meta_dict) : ~HasJsonFile(expected, b)
  /\ expected # lastOp.before

\* C10: whatever is edited and queried after the construction, the object
\* holds and returns the views and the timestamp it was constructed with.
C10_SnapshotImmutable ==
  Constructed =>
    /\ results = built.results
    /\ timestamp = built.timestamp
    /\ lastOp.op = "get_results_of_type" =>
         returned = built.results[lastOp.type]
    /\ lastOp.op = "get_timestamp" => returned = built.timestamp

\* a query after an edit that changed the expectations on disk
C10_Witness ==
  /\ Constructed
  /\ lastOp.op = "get_results_of_type"
  /\ expected # built.expected
  /\ edits > 0

====
